---- MODULE Spec2Model ----
(***************************************************************************)
(* Fair-price prediction and investment scoring of the real-estate         *)
(* dashboard (services/prediction_service.py, services/scoring_service.py, *)
(* pca_workflow.py, create_db.py), its display score (app.py), the query   *)
(* filters (services/property_service.py) and the opportunities table      *)
(* (server/property_handlers.py).                                          *)
(*                                                                         *)
(* Numbers.  Python floats are modelled as exact rationals <<n, d>> with   *)
(* d > 0 in lowest terms, so float rounding error is not part of the       *)
(* model.  An Optional field is <<>> (None) or <<v>> (the number v); the   *)
(* float NaN is not in the modelled domain.                                *)
(***************************************************************************)
EXTENDS Integers, Sequences, FiniteSets, TLC

VARIABLES
    prop,       \* the Property handed to the ScoringService
    score,      \* the InvestmentScore of the last score_property call, or <<>>
    model,      \* PredictionService.model: "loaded" or "none"
    frame,      \* the DataFrame handed to predict_fair_price
    call,       \* the last predict_fair_price call: its path and its output
    svc,        \* the attributes of the ScoringService instance (it sets none)
    batch,      \* the record lists the display layer holds, by name
    results,    \* per list: what the last score_properties call gave, or <<>>
    first,      \* per list: what the first call since its last change gave
    calls,      \* per list: the number of calls since its last change
    before,     \* what list "a" had been given before its last record update
    changed,    \* the field the last record update wrote, or ""
    nupd,       \* the number of record updates so far
    warnings,   \* how often the model-unavailable warning has been printed
    columns,    \* the columns of a DataFrame: column name -> dtype
    features,   \* the feature lists chosen from columns, or <<>>
    listing,    \* the Property handed to calculate_investment_score
    display,    \* what calculate_investment_score gave for it, or <<>>
    heap,       \* the DataFrame objects: object id -> table, or <<>>
    given,      \* the caller's table as it was when the last call began
    dop,        \* the last call on the caller's table and the way it took
    row,        \* a row of the source file read by create_db
    stored,     \* the record create_db wrote for it, or <<>>
    selected,   \* the property_types filter of a request
    query,      \* the restriction _add_filters_to_query built for it, or <<>>
    retrieved,  \* the records opportunities_table got from the service
    shown       \* the rows opportunities_table put out, or <<>>

svars == <<svc, batch, results, first, calls, before, changed, nupd>>
fvars == <<columns, features>>
dvars == <<listing, display>>
hvars == <<heap, given, dop>>
cvars == <<row, stored>>
qvars == <<selected, query>>
tvars == <<retrieved, shown>>
evars == <<hvars, cvars, qvars, tvars>>

vars ==
    <<prop, score, model, frame, call, svars, warnings, fvars, dvars, evars>>

----------------------------------------------------------------------------
(* Exact rational arithmetic standing for Python's float operators.        *)

RECURSIVE GCD(_, _)
GCD(a, b) == IF b = 0 THEN a ELSE GCD(b, a % b)

Abs(x) == IF x < 0 THEN -x ELSE x

Norm(n, d) ==
    LET s == IF d < 0 THEN -1 ELSE 1
        g == GCD(Abs(n), Abs(d))
    IN  <<(s * n) \div g, (s * d) \div g>>

Rat(n) == <<n, 1>>

RAdd(a, b) == Norm(a[1] * b[2] + b[1] * a[2], a[2] * b[2])
RSub(a, b) == Norm(a[1] * b[2] - b[1] * a[2], a[2] * b[2])
RMul(a, b) == Norm(a[1] * b[1], a[2] * b[2])
RDiv(a, b) == Norm(a[1] * b[2], a[2] * b[1])
RLt(a, b)  == a[1] * b[2] < b[1] * a[2]
RLe(a, b)  == a[1] * b[2] <= b[1] * a[2]
RAbs(a)    == <<Abs(a[1]), a[2]>>

\* Python's min(a, b) and max(a, b): the first argument wins a tie.
PyMin(a, b) == IF RLt(b, a) THEN b ELSE a
PyMax(a, b) == IF RLt(a, b) THEN b ELSE a

RECURSIVE RSum(_)
RSum(s) == IF s = <<>> THEN Rat(0) ELSE RAdd(Head(s), RSum(Tail(s)))

\* statistics.mean of a non-empty list
Mean(s) == RDiv(RSum(s), Rat(Len(s)))

----------------------------------------------------------------------------
(* Optional values and Python truthiness.                                  *)

None == <<>>
Some(v) == <<v>>

\* "if x": None and 0 are falsy, every other number is truthy
Truthy(x) == x # None /\ x[1] # 0

Val(x) == Rat(x[1])

----------------------------------------------------------------------------
(* services/scoring_service.py                                             *)

CurrentYear == 2024

\* Property types as the scorer's table spells them and as the data model
\* normalises them (create_db upper-cases propertyTypeDimension).
PropertyTypes ==
    {"Single Family", "Multi Family", "Land",
     "SINGLE FAMILY", "MULTI-FAMILY", "LAND", "CONDO"}

\* faulty variant: the ROI is returned without the cap of 10
calculate_roi_score_uncapped(p) ==
    IF ~Truthy(p.rent_estimate) \/ ~Truthy(p.price)
    THEN Rat(0)
    ELSE LET annual_rent        == RMul(Val(p.rent_estimate), Rat(12))
             operating_expenses == RMul(annual_rent, <<2, 5>>)
         IN  RMul(RDiv(RSub(annual_rent, operating_expenses), Val(p.price)),
                  Rat(100))

\* faulty variant: the expenses are 140% of the rent instead of 40%
calculate_roi_score_expenses(p) ==
    IF ~Truthy(p.rent_estimate) \/ ~Truthy(p.price)
    THEN Rat(0)
    ELSE LET annual_rent        == RMul(Val(p.rent_estimate), Rat(12))
             operating_expenses == RMul(annual_rent, <<7, 5>>)
         IN  PyMin(Rat(10),
                   RMul(RDiv(RSub(annual_rent, operating_expenses),
                             Val(p.price)), Rat(100)))

calculate_roi_score(p) ==
    IF ~Truthy(p.rent_estimate) \/ ~Truthy(p.price)
    THEN Rat(0)
    ELSE LET annual_rent        == RMul(Val(p.rent_estimate), Rat(12))
             operating_expenses == RMul(annual_rent, <<2, 5>>)
             net_roi == RMul(RDiv(RSub(annual_rent, operating_expenses),
                                  Val(p.price)), Rat(100))
         IN  PyMin(Rat(10), net_roi)

calculate_location_score(p) == Rat(7)

\* faulty variant: the zestimate/price factor is used without clipping to [0.8, 1.2]
calculate_condition_score_unclipped(p) ==
    IF ~Truthy(p.year_built)
    THEN Rat(5)
    ELSE LET age       == Rat(CurrentYear - p.year_built[1])
             age_score == PyMax(Rat(0), RSub(Rat(10), RDiv(age, Rat(10))))
         IN  IF Truthy(p.zestimate) /\ Truthy(p.price)
             THEN Mean(<<age_score,
                         RMul(Rat(10), RDiv(Val(p.zestimate), Val(p.price)))>>)
             ELSE age_score

calculate_condition_score(p) ==
    IF ~Truthy(p.year_built)
    THEN Rat(5)
    ELSE LET age       == Rat(CurrentYear - p.year_built[1])
             age_score == PyMax(Rat(0), RSub(Rat(10), RDiv(age, Rat(10))))
         IN  IF Truthy(p.zestimate) /\ Truthy(p.price)
             THEN LET condition_factor == RDiv(Val(p.zestimate), Val(p.price))
                      condition_score  ==
                          RMul(Rat(10),
                               PyMin(<<6, 5>>, PyMax(<<4, 5>>, condition_factor)))
                  IN  Mean(<<age_score, condition_score>>)
             ELSE age_score

calculate_market_score(p) == Rat(6)

\* the dict literal of calculate_risk_score with .get(property_type, 5)
vacancy_risk(property_type) ==
    CASE property_type = "Single Family" -> 8
      [] property_type = "Multi Family"  -> 7
      [] property_type = "Apartment"     -> 6
      [] property_type = "Retail"        -> 5
      [] property_type = "Office"        -> 4
      [] property_type = "Industrial"    -> 6
      [] property_type = "Land"          -> 3
      [] OTHER                           -> 5

\* faulty variant: the vacancy and market appends are indented into the "if", so
\* the list is empty when there is no price factor
risk_factors_indented(p) ==
    IF Truthy(p.zestimate) /\ Truthy(p.price)
    THEN <<RSub(Rat(10),
                RMul(RDiv(RAbs(RSub(Val(p.zestimate), Val(p.price))),
                          Val(p.price)), Rat(100))),
           Rat(vacancy_risk(p.property_type)), Rat(6)>>
    ELSE <<>>

\* faulty variant: the price difference is taken without abs
risk_factors_signed(p) ==
    LET price_part ==
            IF Truthy(p.zestimate) /\ Truthy(p.price)
            THEN LET price_diff ==
                         RDiv(RSub(Val(p.zestimate), Val(p.price)),
                              Val(p.price))
                 IN  <<RSub(Rat(10), RMul(price_diff, Rat(100)))>>
            ELSE <<>>
    IN  price_part \o <<Rat(vacancy_risk(p.property_type))>> \o <<Rat(6)>>

\* the list risk_factors as calculate_risk_score builds it
risk_factors(p) ==
    LET price_part ==
            IF Truthy(p.zestimate) /\ Truthy(p.price)
            THEN LET price_diff ==
                         RDiv(RAbs(RSub(Val(p.zestimate), Val(p.price))),
                              Val(p.price))
                 IN  <<RSub(Rat(10), RMul(price_diff, Rat(100)))>>
            ELSE <<>>
    IN  price_part \o <<Rat(vacancy_risk(p.property_type))>> \o <<Rat(6)>>

calculate_risk_score(p) ==
    IF risk_factors(p) # <<>> THEN Mean(risk_factors(p)) ELSE Rat(5)

\* faulty variant: the guards test "is not None" in place of truthiness
price_divisors_not_none(p) ==
    (IF p.rent_estimate = None \/ p.price = None THEN <<>> ELSE <<p.price>>)
    \o (IF p.year_built # None /\ p.zestimate # None /\ p.price # None
        THEN <<p.price>> ELSE <<>>)
    \o (IF p.zestimate # None /\ p.price # None THEN <<p.price>> ELSE <<>>)

\* the values score_property divides by, in the order of the divisions:
\* annual_rent / price (line 11), zestimate / price (line 38) and
\* abs(zestimate - price) / price (line 58), each behind its guard
price_divisors(p) ==
    (IF ~Truthy(p.rent_estimate) \/ ~Truthy(p.price)
     THEN <<>> ELSE <<p.price>>)
    \o (IF Truthy(p.year_built) /\ Truthy(p.zestimate) /\ Truthy(p.price)
        THEN <<p.price>> ELSE <<>>)
    \o (IF Truthy(p.zestimate) /\ Truthy(p.price) THEN <<p.price>> ELSE <<>>)

\* faulty variant: the weights of condition and risk are exchanged
score_property_swapped_weights(p) ==
    LET roi_score       == calculate_roi_score(p)
        location_score  == calculate_location_score(p)
        condition_score == calculate_condition_score(p)
        market_score    == calculate_market_score(p)
        risk_score      == calculate_risk_score(p)
        total_score ==
            RMul(RAdd(RAdd(RAdd(RAdd(RMul(roi_score, <<7, 20>>),
                                     RMul(location_score, <<1, 4>>)),
                                RMul(condition_score, <<1, 10>>)),
                           RMul(market_score, <<3, 20>>)),
                      RMul(risk_score, <<3, 20>>)),
                 Rat(10))
    IN  [property        |-> p,
         total_score     |-> total_score,
         roi_score       |-> roi_score,
         location_score  |-> location_score,
         condition_score |-> condition_score,
         market_score    |-> market_score,
         risk_score      |-> risk_score]

\* faulty variant: the weight of risk is 1.0 in place of 0.10
score_property_risk_weight(p) ==
    LET roi_score       == calculate_roi_score(p)
        location_score  == calculate_location_score(p)
        condition_score == calculate_condition_score(p)
        market_score    == calculate_market_score(p)
        risk_score      == calculate_risk_score(p)
        total_score ==
            RMul(RAdd(RAdd(RAdd(RAdd(RMul(roi_score, <<7, 20>>),
                                     RMul(location_score, <<1, 4>>)),
                                RMul(condition_score, <<3, 20>>)),
                           RMul(market_score, <<3, 20>>)),
                      RMul(risk_score, Rat(1))),
                 Rat(10))
    IN  [property        |-> p,
         total_score     |-> total_score,
         roi_score       |-> roi_score,
         location_score  |-> location_score,
         condition_score |-> condition_score,
         market_score    |-> market_score,
         risk_score      |-> risk_score]

score_property(p) ==
    LET roi_score       == calculate_roi_score(p)
        location_score  == calculate_location_score(p)
        condition_score == calculate_condition_score(p)
        market_score    == calculate_market_score(p)
        risk_score      == calculate_risk_score(p)
        total_score ==
            RMul(RAdd(RAdd(RAdd(RAdd(RMul(roi_score, <<7, 20>>),
                                     RMul(location_score, <<1, 4>>)),
                                RMul(condition_score, <<3, 20>>)),
                           RMul(market_score, <<3, 20>>)),
                      RMul(risk_score, <<1, 10>>)),
                 Rat(10))
    IN  [property        |-> p,
         total_score     |-> total_score,
         roi_score       |-> roi_score,
         location_score  |-> location_score,
         condition_score |-> condition_score,
         market_score    |-> market_score,
         risk_score      |-> risk_score]

\* A field that holds text where a number is expected.
Text == <<"text", 0>>
IsText(x) == Len(x) = 2

\* score_property raises TypeError: with a truthy price, a text rent_estimate
\* passes "not property.rent_estimate" and fails in annual_rent / price
score_property_raises(p) == IsText(p.rent_estimate) /\ Truthy(p.price)

\* faulty variant: risk_factors is an attribute of the service that is never
\* reset, so every record's risk is a mean over all factors seen so far
RECURSIVE score_properties_shared_factors(_, _)
score_properties_shared_factors(self, properties) ==
    IF \E i \in 1..Len(properties) : score_property_raises(properties[i])
    THEN [self |-> self, exc |-> "TypeError", scores |-> <<>>]
    ELSE IF properties = <<>>
    THEN [self |-> self, exc |-> "", scores |-> <<>>]
    ELSE LET seen == self \o risk_factors(Head(properties))
             s    == [score_property(Head(properties))
                         EXCEPT !.risk_score = Mean(seen)]
             rest == score_properties_shared_factors(seen, Tail(properties))
         IN  [self |-> rest.self, exc |-> "", scores |-> <<s>> \o rest.scores]

\* faulty variant: the totals are rescaled to the best total of the list
score_properties_normalized(self, properties) ==
    IF \E i \in 1..Len(properties) : score_property_raises(properties[i])
    THEN [self |-> self, exc |-> "TypeError", scores |-> <<>>]
    ELSE LET raw  == [i \in 1..Len(properties) |->
                         score_property(properties[i])]
             best == CHOOSE m \in {raw[i].total_score : i \in 1..Len(raw)} :
                        \A i \in 1..Len(raw) : RLe(raw[i].total_score, m)
         IN  [self |-> self, exc |-> "",
              scores |-> [i \in 1..Len(raw) |->
                  [raw[i] EXCEPT !.total_score =
                      RMul(Rat(100), RDiv(@, best))]]]

\* faulty variant: the scores of the first call are kept and returned again
score_properties_cached(self, properties) ==
    IF self # <<>>
    THEN [self |-> self, exc |-> "", scores |-> self]
    ELSE IF \E i \in 1..Len(properties) : score_property_raises(properties[i])
    THEN [self |-> self, exc |-> "TypeError", scores |-> <<>>]
    ELSE LET out == [i \in 1..Len(properties) |->
                        score_property(properties[i])]
         IN  [self |-> out, exc |-> "", scores |-> out]

\* the list comprehension of score_properties: the first raise ends it and
\* no list is returned; self is left as it is
score_properties(self, properties) ==
    IF \E i \in 1..Len(properties) : score_property_raises(properties[i])
    THEN [self |-> self, exc |-> "TypeError", scores |-> <<>>]
    ELSE [self |-> self, exc |-> "",
          scores |-> [i \in 1..Len(properties) |->
                         score_property(properties[i])]]

----------------------------------------------------------------------------
(* app.py: the display score                                               *)

DisplayYear == 2023

\* calculate_investment_score: the four additions to score, in order; a None
\* in a comparison or in arithmetic raises TypeError
calculate_investment_score(p) ==
    IF p.price = None
       \/ (p.price[1] > 0 /\ (p.rent_estimate = None \/ p.zestimate = None))
    THEN [exc |-> "TypeError", score |-> Rat(0), parts |-> <<>>]
    ELSE LET price == Val(p.price)
             cap_part ==
                 IF p.price[1] > 0
                 THEN PyMin(RMul(RDiv(RMul(Val(p.rent_estimate), Rat(12)),
                                      price), Rat(40)),
                            Rat(4))
                 ELSE Rat(0)
             appreciation_part ==
                 IF p.price[1] > 0
                 THEN PyMin(RMul(RDiv(RSub(Val(p.zestimate), price), price),
                                 Rat(10)),
                            Rat(3))
                 ELSE Rat(0)
             age_part ==
                 IF Truthy(p.year_built)
                 THEN LET age_score ==
                              PyMin(RDiv(Rat(DisplayYear - p.year_built[1]),
                                         Rat(100)), Rat(1))
                      IN  RMul(Rat(2), RSub(Rat(1), age_score))
                 ELSE Rat(0)
             hoa_part ==
                 IF ~Truthy(p.monthly_hoa) \/ p.monthly_hoa[1] < 200
                 THEN Rat(1)
                 ELSE Rat(0)
         IN  [exc |-> "",
              score |-> RAdd(RAdd(RAdd(cap_part, appreciation_part),
                                  age_part), hoa_part),
              parts |-> [cap_rate |-> cap_part,
                         appreciation |-> appreciation_part,
                         age |-> age_part, hoa |-> hoa_part]]

----------------------------------------------------------------------------
(* create_db.py: the normalisation of propertyTypeDimension                *)

\* str.upper() on the type strings of the model
upper(s) ==
    CASE s = "Single Family" -> "SINGLE FAMILY"
      [] s = "Multi Family"  -> "MULTI FAMILY"
      [] s = "Land"          -> "LAND"
      [] OTHER               -> s

\* .str.upper() followed by .map(property_type_mapping).fillna('SINGLE FAMILY')
standardize_property_type(s) ==
    LET u == upper(s)
    IN  CASE u = "SINGLE FAMILY" -> "SINGLE FAMILY"
          [] u = "SINGLE-FAMILY" -> "SINGLE FAMILY"
          [] u = "SINGLEFAMILY"  -> "SINGLE FAMILY"
          [] u = "CONDO"         -> "CONDO"
          [] u = "CONDOMINIUM"   -> "CONDO"
          [] u = "TOWNHOUSE"     -> "TOWNHOUSE"
          [] u = "TOWN_HOUSE"    -> "TOWNHOUSE"
          [] u = "TOWNHOME"      -> "TOWNHOUSE"
          [] OTHER               -> "SINGLE FAMILY"

\* calculate_fair_price(row): the mean of price and zestimate, or the price
\* when the zestimate is missing
calculate_fair_price(r) ==
    IF r.zestimate # None
    THEN RDiv(RAdd(Rat(r.price[1]), Rat(r.zestimate[1])), Rat(2))
    ELSE Rat(r.price[1])

\* Series.fillna(value) on one cell of a text column
fillna_cell(cell, value) == IF cell = None THEN Some(value) ELSE cell

\* create_db on one row of the file: lines 45-56; county is written as read
create_db_row(r) ==
    [r EXCEPT
        !.propertyTypeDimension =
            IF @ = None THEN "SINGLE FAMILY"
            ELSE standardize_property_type(@[1]),
        !.streetAddress = fillna_cell(@, "Address Not Available"),
        !.city          = fillna_cell(@, "City Not Available"),
        !.state         = fillna_cell(@, "NA"),
        !.zipcode       = fillna_cell(@, "00000")]
    @@ [fair_price |-> calculate_fair_price(r)]

----------------------------------------------------------------------------
(* services/property_service.py: the filters of a query                    *)

allowed_types == {"SINGLE FAMILY", "CONDO", "TOWNHOUSE"}

\* _add_filters_to_query: each condition added to the WHERE clause, or <<>>
\* where none is added; filters holds <<>> for a key that is None or absent
add_filters_to_query(filters) ==
    LET between(lo, hi) ==
            IF lo # None /\ hi # None THEN Some(<<lo[1], hi[1]>>) ELSE None
        property_types == filters.property_types
        valid_types ==
            SelectSeq(property_types, LAMBDA pt : upper(pt) \in allowed_types)
    IN  [price_between |-> between(filters.price_min, filters.price_max),
         sqft_between  |-> between(filters.sqft_min, filters.sqft_max),
         types_in      |->
             IF property_types # <<>> /\ valid_types # <<>>
             THEN Some([i \in 1..Len(valid_types) |-> upper(valid_types[i])])
             ELSE None]

----------------------------------------------------------------------------
(* server/property_handlers.py: the opportunities table                    *)

SampleSize == 3

\* price_diff_pct of a record with truthy price and fair_price
price_diff_pct(p) ==
    RMul(RDiv(RSub(Val(p.fair_price), Val(p.price)), Val(p.price)), Rat(100))

\* faulty variant: the percentage is compared without abs
passes_price_filter_signed(p) ==
    /\ Truthy(p.fair_price) /\ Truthy(p.price)
    /\ RLe(price_diff_pct(p), Rat(50))

\* lines 135-143: the record is kept for display
passes_price_filter(p) ==
    /\ Truthy(p.fair_price) /\ Truthy(p.price)
    /\ RLe(RAbs(price_diff_pct(p)), Rat(50))

\* opportunities_table on the records it retrieved: the rows of the frame it
\* returns, each with the position of its record.  A None among the prices
\* of the debug sample (lines 123-126) raises TypeError in the format, which
\* the outer handler answers with an empty frame.
opportunities_table(properties) ==
    LET sample == 1..(IF Len(properties) < SampleSize
                      THEN Len(properties) ELSE SampleSize)
        positions == [i \in 1..Len(properties) |-> i]
        kept == SelectSeq(positions,
                          LAMBDA i : passes_price_filter(properties[i]))
    IN  IF \E i \in sample :
              properties[i].price = None \/ properties[i].fair_price = None
        THEN <<>>
        ELSE [k \in 1..Len(kept) |->
                 [position   |-> kept[k],
                  price      |-> properties[kept[k]].price,
                  fair_price |-> properties[kept[k]].fair_price]]

----------------------------------------------------------------------------
(* pca_workflow.py and services/prediction_service.py                      *)
(*                                                                         *)
(* A DataFrame is [n, pat, width]: n rows, whose prices repeat the short   *)
(* pattern pat, and width columns after scaling and one-hot encoding.      *)
(* env is what the call gets from outside the code: the stage that throws  *)
(* (fault), the regressor's raw output and the jitter draws.               *)

NComponents == 90

Cyc(pat, i) == pat[((i - 1) % Len(pat)) + 1]

\* properties_df['price'].values
PriceValues(df) == [i \in 1..df.n |-> Rat(Cyc(df.pat, i))]

\* faulty variant: only the number of features is compared with 90
convert_x_to_pca_features_only(df) ==
    IF df.width < NComponents
    THEN [exc |-> "ValueError", rows |-> 0]
    ELSE [exc |-> "", rows |-> df.n]

\* PCA(n_components=90).fit raises unless 90 <= min(n_samples, n_features);
\* otherwise the result has one row per input row
convert_x_to_pca(df) ==
    IF df.n < NComponents \/ df.width < NComponents
    THEN [exc |-> "ValueError", rows |-> 0]
    ELSE [exc |-> "", rows |-> df.n]

\* np.clip(x, lo, hi) = minimum(maximum(x, lo), hi)
clip(x, lo, hi) ==
    LET m == IF RLt(x, lo) THEN lo ELSE x
    IN  IF RLt(hi, m) THEN hi ELSE m

\* faulty variant: the bounds are computed but the clip is never applied
validate_predictions_noclip(predictions, actual_prices) == predictions

validate_predictions(predictions, actual_prices) ==
    IF Len(predictions) # Len(actual_prices)
    THEN predictions            \* ValueError, caught: the input comes back
    ELSE [i \in 1..Len(predictions) |->
            clip(predictions[i],
                 RMul(actual_prices[i], <<1, 2>>),
                 RMul(actual_prices[i], <<3, 2>>))]

\* self.model.predict(X_pca).reshape(-1): one value per row, or several per
\* row when the regressor has more than one output ("shape")
raw_predictions(df, env) ==
    [i \in 1..(IF env.fault = "shape" THEN 2 * df.n ELSE df.n) |->
        Rat(Cyc(env.pat, i).raw)]

\* np.random.normal(1, 0.05, size=len(predictions))
noise(df, env, len) == [i \in 1..len |-> Cyc(env.pat, i).noise]

\* lines 34-111: the try block once the model is known to be loaded
loaded_body(df, env) ==
    IF env.fault = "impute"
    THEN [exc |-> "ValueError", path |-> "except", ran |-> {"impute"},
          value |-> <<>>]
    ELSE LET X_pca == convert_x_to_pca(df) IN
    IF X_pca.exc # ""
    THEN [exc |-> X_pca.exc, path |-> "except", ran |-> {"impute", "pca"},
          value |-> <<>>]
    ELSE IF env.fault = "predict"
    THEN [exc |-> "ValueError", path |-> "except",
          ran |-> {"impute", "pca", "predict"}, value |-> <<>>]
    ELSE LET predictions == raw_predictions(df, env) IN
    IF Len(predictions) # df.n
    THEN [exc |-> "ValueError", path |-> "except",
          ran |-> {"impute", "pca", "predict"}, value |-> predictions]
    ELSE LET positive == [i \in 1..df.n |-> PyMax(predictions[i], Rat(0))]
             jitter   == noise(df, env, Len(positive))
             noisy    == [i \in 1..df.n |-> RMul(positive[i], jitter[i])]
         IN  [exc |-> "", path |-> "ok",
              ran |-> {"impute", "pca", "predict", "jitter", "clip"},
              value |-> validate_predictions(noisy, PriceValues(df))]

\* faulty variant: no "if self.model is None" guard; the imputation loop starts and
\* the attributes __init__ never set raise AttributeError
try_body_unguarded(mdl, df, env) ==
    IF mdl = "none"
    THEN [exc |-> "AttributeError", path |-> "except", ran |-> {"impute"},
          value |-> <<>>]
    ELSE loaded_body(df, env)

\* the try block of predict_fair_price up to its return or its first raise;
\* value is what the block has computed by then
try_body(mdl, df, env) ==
    IF mdl = "none"
    THEN [exc |-> "", path |-> "no_model", ran |-> {},
          value |-> PriceValues(df)]
    ELSE loaded_body(df, env)

\* faulty variant: the handler logs and lets the exception go on to the caller
except_handler_reraise(df, body) ==
    [raised |-> TRUE, result |-> <<>>]

\* faulty variant: the handler returns what the try block had computed so far
except_handler_partial(df, body) ==
    [raised |-> FALSE, result |-> body.value]

\* except Exception as e: ... return properties_df['price'].values
except_handler(df, body) ==
    [raised |-> FALSE, result |-> PriceValues(df)]

\* A column name is the sequence of its parts between the "/" signs.
\* col.startswith('schools/')
StartsWithSchools(col) == Len(col) > 1 /\ col[1] = "schools"

NumericDtypes == {"int32", "float32", "int64", "float64"}
CategoricalDtypes == {"object", "category"}

columns_to_remove == {<<"price">>, <<"fair_price">>, <<"id">>}

\* lines 40-57: the two select_dtypes calls and the two filters; cols maps
\* each column name of df to its dtype
select_features(cols) ==
    LET kept(dtypes) ==
            {col \in DOMAIN cols :
                /\ cols[col] \in dtypes
                /\ col \notin columns_to_remove
                /\ ~StartsWithSchools(col)}
    IN  [numeric_features     |-> kept(NumericDtypes),
         categorical_features |-> kept(CategoricalDtypes)]

\* The cells of a table.  A table is [n, width, num, cat]: n rows and width
\* encoded columns as in a DataFrame above, and one numeric and one
\* categorical feature column whose cells repeat the patterns num and cat.
\* A cell is <<>> (missing) or <<v>>.
\* the number of rows of df whose cell is the j-th of the pattern
RowsOf(df, pat, j) ==
    Cardinality({i \in 1..df.n : ((i - 1) % Len(pat)) + 1 = j})

HasMissing(pat) == \E j \in 1..Len(pat) : pat[j] = None

AllMissing(pat) == \A j \in 1..Len(pat) : pat[j] = None

\* the mean of the cells of a numeric column that are not missing
column_mean(df, pat) ==
    LET total == [j \in 1..Len(pat) |->
                     IF pat[j] = None THEN Rat(0)
                     ELSE RMul(Rat(RowsOf(df, pat, j)), pat[j][1])]
        count == [j \in 1..Len(pat) |->
                     IF pat[j] = None THEN Rat(0)
                     ELSE Rat(RowsOf(df, pat, j))]
    IN  RDiv(RSum(total), RSum(count))

\* Series.fillna(value)
fillna(pat, value) ==
    [j \in 1..Len(pat) |-> IF pat[j] = None THEN Some(value) ELSE pat[j]]

\* lines 62-78: SimpleImputer on each column with a missing cell; a numeric
\* column with no value at all is dropped by the imputer and the assignment
\* of its empty result raises ValueError
impute(df) ==
    IF AllMissing(df.num)
    THEN [exc |-> "ValueError", df |-> df]
    ELSE [exc |-> "",
          df |-> [df EXCEPT
                    !.num = IF HasMissing(@)
                            THEN fillna(@, column_mean(df, @)) ELSE @,
                    !.cat = IF HasMissing(@)
                            THEN fillna(@, "UNKNOWN") ELSE @]]

\* pca_workflow.py lines 13-18: X = x is the caller's object, and the two
\* fillna assignments write into it; the mean of an empty column is NaN and
\* fills nothing
fill_features(x) ==
    [x EXCEPT !.num = IF AllMissing(@) THEN @
                      ELSE fillna(@, column_mean(x, @)),
              !.cat = fillna(@, "Unknown")]

\* the pipeline of lines 20-37 raises: PCA cannot fit, or a NaN is left
pipeline_raises(x) ==
    convert_x_to_pca(x).exc # "" \/ HasMissing(x.num)

CallerId == 1
CopyId == 2

\* faulty variant: df = properties_df, the caller's own object
df_binding_alias(properties_df) == properties_df

\* df = properties_df.copy(): df is bound to a new object
df_binding(properties_df) == CopyId

\* predict_fair_price seen from the objects: objs maps the caller's frame
\* (CallerId) and the copy to their tables; fault = "predict" is a raise
\* after the PCA stage.  Gives the objects after the call and the way taken.
predict_fair_price_objects(mdl, objs, fault) ==
    IF mdl = "none"
    THEN [objs |-> objs, path |-> "no_model"]
    ELSE LET df  == df_binding(CallerId)
             o1  == [objs EXCEPT ![df] = objs[CallerId]]
             imp == impute(o1[df])
         IN  IF imp.exc # ""
             THEN [objs |-> o1, path |-> "except"]
             ELSE LET o2 == [o1 EXCEPT ![df] = fill_features(imp.df)]
                  IN  [objs |-> o2,
                       path |-> IF pipeline_raises(o2[df])
                                   \/ fault = "predict"
                                THEN "except" ELSE "ok"]

\* faulty variant: a call that finds no model loads it again, and succeeds
model_after_call_retry(mdl) == "loaded"

\* self.model after a predict_fair_price call: the method never assigns it
\* and never calls load_model again
model_after_call(mdl) == mdl

\* print("Warning: Using actual prices as fair prices ...") runs in every
\* call that finds self.model is None: the number of lines one call prints
warning_printed(mdl) == IF mdl = "none" THEN 1 ELSE 0

predict_fair_price(mdl, df, env) ==
    LET body == try_body(mdl, df, env)
        out  == IF body.exc # ""
                THEN except_handler(df, body)
                ELSE [raised |-> FALSE, result |-> body.value]
    IN  [path |-> body.path, exc |-> body.exc, ran |-> body.ran,
         raised |-> out.raised, result |-> out.result]

----------------------------------------------------------------------------
(* Inputs                                                                  *)

MaxPriceUnits == 2
MaxRent == 2
MaxPattern == 2

SeqsUpTo(S, k) == UNION {[1..m -> S] : m \in 1..k}

PriceSet == {100 * k : k \in 0..MaxPriceUnits}

\* the record of the end-to-end scenario
ScenarioProperty ==
    [price |-> Some(500000), zestimate |-> Some(520000),
     rent_estimate |-> Some(2500), year_built |-> Some(2000),
     property_type |-> "SINGLE FAMILY"]

Properties ==
    [price         : {None} \cup {Some(v) : v \in PriceSet},
     zestimate     : {None, Some(0), Some(90), Some(100), Some(120), Some(400)},
     rent_estimate : {None} \cup {Some(r) : r \in 0..MaxRent},
     year_built    : {None, Some(0), Some(1900), Some(2000), Some(2024),
                      Some(2030)},
     property_type : PropertyTypes]
    \cup {ScenarioProperty}

BatchSizes == {1, NComponents - 1, NComponents}
Widths == {NComponents - 1, NComponents}

\* listed prices of the rows of a batch: a price of 0 and two prices > 0
FramePrices == {0, 100, 200}

Frames ==
    [n : BatchSizes, pat : SeqsUpTo(FramePrices, MaxPattern), width : Widths]

\* a raw prediction and a jitter draw: a negative prediction, one whose
\* jittered value 110 lies inside the band of a price of 100 or 200, and one
\* above every band
Cells ==
    {[raw |-> -50, noise |-> <<9, 10>>], [raw |-> 100, noise |-> <<11, 10>>],
     [raw |-> 400, noise |-> <<11, 10>>]}

Envs ==
    [fault : {"none"}, pat : SeqsUpTo(Cells, MaxPattern)]
    \cup [fault : {"impute", "predict", "shape"},
          pat : {<<[raw |-> 100, noise |-> <<11, 10>>]>>}]

NoCall ==
    [path |-> "idle", exc |-> "", ran |-> {}, raised |-> FALSE,
     result |-> <<>>]

NoFrame == [n |-> 0, pat |-> <<0>>, width |-> 0]

MaxBatch == 2
MaxCalls == 2
MaxUpdates == 1
MaxWarnings == 2
MaxColumns == 3
MaxSelected == 2
MaxRetrieved == 3

\* records of a list before any update: without a rent estimate, with one,
\* and with a text in its place
ListedRecords ==
    [price         : {Some(100)},
     fair_price    : {Some(100)},
     zestimate     : {None},
     rent_estimate : {None, Some(1), Text},
     year_built    : {Some(2000)},
     property_type : {"LAND"}]

\* the values an update writes into price and into fair_price
UpdateValues == {100, 200}

BatchNames == {"a", "b"}

\* the other list the display layer scores: the scenario record
OtherBatch == <<ScenarioProperty>>

\* the records the display layer colours and sorts
Listings ==
    [price         : {None} \cup {Some(v) : v \in PriceSet},
     zestimate     : {None, Some(0), Some(90), Some(100), Some(120), Some(400)},
     rent_estimate : {None} \cup {Some(r) : r \in 0..MaxRent},
     year_built    : {None, Some(1900), Some(2000), Some(2023), Some(2030)},
     monthly_hoa   : {None, Some(0), Some(100), Some(200), Some(300)},
     property_type : {"LAND"}]

\* the cells of the feature columns of a caller's table
NumericCells == {None, Some(Rat(1)), Some(Rat(3))}
CategoricalCells == {None, Some("A")}

\* a pattern is never longer than the table has rows
Tables ==
    {t \in [n : {1, NComponents}, width : {NComponents},
            num : SeqsUpTo(NumericCells, MaxPattern),
            cat : SeqsUpTo(CategoricalCells, MaxPattern)] :
        Len(t.num) <= t.n /\ Len(t.cat) <= t.n}

\* rows of the source file: every address field present or missing
CsvRows ==
    [price         : {Some(v) : v \in PriceSet},
     zestimate     : {None, Some(0), Some(90), Some(100), Some(120), Some(400)},
     propertyTypeDimension : {None, Some("Single Family"), Some("CONDOMINIUM")},
     streetAddress : {None, Some("1 Main St")},
     city          : {None, Some("Irvine")},
     state         : {None, Some("CA")},
     zipcode       : {None, Some("92602")},
     county        : {None, Some("Orange")}]

\* the property types a request can select
SelectableTypes == {"Single Family", "CONDO", "TOWNHOUSE", "Land"}

\* the filters of a request
Filters ==
    [price_min : {None, Some(0)}, price_max : {None, Some(200)},
     sqft_min  : {None, Some(0)}, sqft_max  : {None, Some(2000)},
     property_types : {<<>>} \cup SeqsUpTo(SelectableTypes, MaxSelected)]

\* records as get_investment_opportunities returns them: a price and a
\* fair_price that are missing, zero, inside and outside the band
RetrievedRecords ==
    [price      : {None, Some(0), Some(100)},
     fair_price : {None, Some(0), Some(40), Some(150), Some(160)}]

\* the state of the scoring side while nothing has been scored
ServiceIdle ==
    /\ svc = <<>>
    /\ results = [b \in BatchNames |-> None]
    /\ first = [b \in BatchNames |-> None]
    /\ calls = [b \in BatchNames |-> 0]
    /\ before = None
    /\ changed = ""
    /\ nupd = 0

NoColumns == <<>>

\* column names: the ones BASE_PROPERTY_QUERY and the properties table give
\* that matter to the selection, and an ordinary one of either kind
ColumnNames ==
    {<<"price">>, <<"fair_price">>, <<"id">>, <<"property_id">>,
     <<"schools", "0", "rating">>, <<"bedrooms">>, <<"city">>}

Dtypes == {"int64", "float64", "object", "bool"}

DataFrames ==
    UNION {[S -> Dtypes] :
              S \in {T \in SUBSET ColumnNames : Cardinality(T) <= MaxColumns}}

\* no feature selection has been asked for
FeaturesIdle == columns = NoColumns /\ features = None

\* no display score has been asked for
DisplayIdle == listing = ScenarioProperty /\ display = None

\* no call on a caller's table has been made
DataIdle == heap = None /\ given = None /\ dop = None

\* create_db has not been run
CreateDbIdle == row = None /\ stored = None

\* no filtered query has been built
QueryIdle == selected = None /\ query = None

\* no opportunities table has been drawn
TableIdle == retrieved = None /\ shown = None

\* none of the four is in use
ExtrasIdle == DataIdle /\ CreateDbIdle /\ QueryIdle /\ TableIdle

----------------------------------------------------------------------------
(* The scoring service on one record                                       *)

InitScore ==
    /\ prop \in Properties
    /\ score = None
    /\ model = "none"
    /\ frame = NoFrame
    /\ call = NoCall
    /\ batch = [b \in BatchNames |-> <<>>]
    /\ ServiceIdle
    /\ warnings = 0
    /\ FeaturesIdle
    /\ DisplayIdle
    /\ ExtrasIdle

ScoreProperty ==
    /\ score' = score_property(prop)
    /\ UNCHANGED <<prop, model, frame, call, svars, warnings, fvars, dvars, evars>>

NextScore == ScoreProperty

SpecScore == InitScore /\ [][NextScore]_vars

----------------------------------------------------------------------------

(* The scoring service on lists of records, with record updates between    *)
(* the calls                                                               *)

InitService ==
    /\ \E s \in SeqsUpTo(ListedRecords, MaxBatch) :
          batch = [b \in BatchNames |-> IF b = "a" THEN s ELSE OtherBatch]
    /\ ServiceIdle
    /\ prop = ScenarioProperty
    /\ score = None
    /\ model = "none"
    /\ frame = NoFrame
    /\ call = NoCall
    /\ warnings = 0
    /\ FeaturesIdle
    /\ DisplayIdle
    /\ ExtrasIdle

\* a handler calls scoring_service.score_properties on the list b
ScoreProperties(b) ==
    /\ calls[b] < MaxCalls
    /\ LET r == score_properties(svc, batch[b])
           out == Some([exc |-> r.exc, scores |-> r.scores])
       IN  /\ svc' = r.self
           /\ results' = [results EXCEPT ![b] = out]
           /\ first' = [first EXCEPT ![b] = IF @ = None THEN out ELSE @]
    /\ calls' = [calls EXCEPT ![b] = @ + 1]
    /\ UNCHANGED <<batch, before, changed, nupd>>
    /\ UNCHANGED <<prop, score, model, frame, call, warnings, fvars, dvars, evars>>

\* a field of the i-th record of list "a" is assigned another value
UpdateRecord(i, field, v) ==
    /\ nupd < MaxUpdates
    /\ i \in 1..Len(batch["a"])
    /\ LET old == batch["a"][i]
           new == IF field = "price" THEN [old EXCEPT !.price = Some(v)]
                                     ELSE [old EXCEPT !.fair_price = Some(v)]
       IN  /\ new # old
           /\ batch' = [batch EXCEPT !["a"][i] = new]
    /\ before' = results["a"]
    /\ changed' = field
    /\ results' = [results EXCEPT !["a"] = None]
    /\ first' = [first EXCEPT !["a"] = None]
    /\ calls' = [calls EXCEPT !["a"] = 0]
    /\ nupd' = nupd + 1
    /\ UNCHANGED <<svc, prop, score, model, frame, call, warnings, fvars, dvars, evars>>

NextService ==
    \/ \E b \in BatchNames : ScoreProperties(b)
    \/ \E i \in 1..MaxBatch, field \in {"price", "fair_price"},
          v \in UpdateValues : UpdateRecord(i, field, v)

SpecService ==
    InitService /\ [][NextService]_vars

----------------------------------------------------------------------------
(* The feature selection of predict_fair_price on one DataFrame            *)

InitFeatures ==
    /\ columns \in DataFrames
    /\ features = None
    /\ prop = ScenarioProperty
    /\ score = None
    /\ model = "loaded"
    /\ frame = NoFrame
    /\ call = NoCall
    /\ batch = [b \in BatchNames |-> <<>>]
    /\ ServiceIdle
    /\ warnings = 0
    /\ DisplayIdle
    /\ ExtrasIdle

SelectFeatures ==
    /\ features' = Some(select_features(columns))
    /\ UNCHANGED <<columns, prop, score, model, frame, call, svars, warnings,
                   dvars, evars>>

NextFeatures == SelectFeatures

SpecFeatures == InitFeatures /\ [][NextFeatures]_vars

----------------------------------------------------------------------------
(* The display score on one record                                         *)

InitDisplay ==
    /\ listing \in Listings
    /\ display = None
    /\ prop = ScenarioProperty
    /\ score = None
    /\ model = "none"
    /\ frame = NoFrame
    /\ call = NoCall
    /\ batch = [b \in BatchNames |-> <<>>]
    /\ ServiceIdle
    /\ warnings = 0
    /\ FeaturesIdle
    /\ ExtrasIdle

CalculateInvestmentScore ==
    /\ display' = Some(calculate_investment_score(listing))
    /\ UNCHANGED <<listing, prop, score, model, frame, call, svars, warnings,
                   fvars, evars>>

NextDisplay == CalculateInvestmentScore

SpecDisplay == InitDisplay /\ [][NextDisplay]_vars

----------------------------------------------------------------------------
(* The prediction service and the PCA stage on a caller's table            *)

\* the five variables of the scoring side and of one prediction call at rest
CoreIdle ==
    /\ prop = ScenarioProperty
    /\ score = None
    /\ frame = NoFrame
    /\ call = NoCall
    /\ warnings = 0
    /\ batch = [b \in BatchNames |-> <<>>]
    /\ ServiceIdle
    /\ FeaturesIdle
    /\ DisplayIdle

InitData ==
    /\ model \in {"loaded", "none"}
    /\ \E t \in Tables : heap = (CallerId :> t) @@ (CopyId :> None)
    /\ given = None
    /\ dop = None
    /\ CoreIdle
    /\ CreateDbIdle /\ QueryIdle /\ TableIdle

\* a caller hands its table to predict_fair_price
PredictOnTable ==
    /\ \E fault \in {"none", "predict"} :
          LET r == predict_fair_price_objects(model, heap, fault)
          IN  /\ heap' = r.objs
              /\ dop' = [op |-> "predict_fair_price", path |-> r.path]
    /\ given' = heap[CallerId]
    /\ UNCHANGED <<prop, score, model, frame, call, svars, warnings, fvars,
                   dvars, cvars, qvars, tvars>>

\* a caller hands its table to convert_x_to_pca
ConvertXToPca ==
    /\ heap' = [heap EXCEPT ![CallerId] = fill_features(@)]
    /\ dop' = [op |-> "convert_x_to_pca",
               path |-> IF pipeline_raises(heap'[CallerId])
                        THEN "raise" ELSE "ok"]
    /\ given' = heap[CallerId]
    /\ UNCHANGED <<prop, score, model, frame, call, svars, warnings, fvars,
                   dvars, cvars, qvars, tvars>>

NextData == PredictOnTable \/ ConvertXToPca

SpecData == InitData /\ [][NextData]_vars

----------------------------------------------------------------------------
(* create_db on one row of the source file                                 *)

InitCreateDb ==
    /\ row \in CsvRows
    /\ stored = None
    /\ model = "none"
    /\ CoreIdle
    /\ DataIdle /\ QueryIdle /\ TableIdle

CreateDb ==
    /\ stored' = Some(create_db_row(row))
    /\ UNCHANGED <<row, prop, score, model, frame, call, svars, warnings,
                   fvars, dvars, hvars, qvars, tvars>>

NextCreateDb == CreateDb

SpecCreateDb == InitCreateDb /\ [][NextCreateDb]_vars

----------------------------------------------------------------------------
(* get_investment_opportunities: the query built for a request's filters   *)

InitQuery ==
    /\ selected \in Filters
    /\ query = None
    /\ model = "none"
    /\ CoreIdle
    /\ DataIdle /\ CreateDbIdle /\ TableIdle

AddFiltersToQuery ==
    /\ query' = Some(add_filters_to_query(selected))
    /\ UNCHANGED <<selected, prop, score, model, frame, call, svars,
                   warnings, fvars, dvars, hvars, cvars, tvars>>

NextQuery == AddFiltersToQuery

SpecQuery == InitQuery /\ [][NextQuery]_vars

----------------------------------------------------------------------------
(* The opportunities table of the property handlers                        *)

InitTable ==
    /\ retrieved \in {<<>>} \cup SeqsUpTo(RetrievedRecords, MaxRetrieved)
    /\ shown = None
    /\ model = "none"
    /\ CoreIdle
    /\ DataIdle /\ CreateDbIdle /\ QueryIdle

OpportunitiesTable ==
    /\ shown' = Some(opportunities_table(retrieved))
    /\ UNCHANGED <<retrieved, prop, score, model, frame, call, svars,
                   warnings, fvars, dvars, hvars, cvars, qvars>>

NextTable == OpportunitiesTable

SpecTable == InitTable /\ [][NextTable]_vars

----------------------------------------------------------------------------
(* The prediction service on one batch                                     *)

InitPredict ==
    /\ model \in {"loaded", "none"}
    /\ frame \in Frames
    /\ call = NoCall
    /\ prop = ScenarioProperty
    /\ score = None
    /\ batch = [b \in BatchNames |-> <<>>]
    /\ ServiceIdle
    /\ warnings = 0
    /\ FeaturesIdle
    /\ DisplayIdle
    /\ ExtrasIdle

\* one call on the PredictionService instance, with what it prints
PredictFairPrice ==
    /\ warnings < MaxWarnings
    /\ \E env \in Envs : call' = predict_fair_price(model, frame, env)
    /\ warnings' = warnings + warning_printed(model)
    /\ model' = model_after_call(model)
    /\ UNCHANGED <<prop, score, frame, svars, fvars, dvars, evars>>

NextPredict == PredictFairPrice

SpecPredict == InitPredict /\ [][NextPredict]_vars

----------------------------------------------------------------------------
(* Properties of predict_fair_price (checked under SpecPredict)            *)

Returned == call.path # "idle"

PriceAt(i) == Rat(Cyc(frame.pat, i))
LowerBound(i) == RMul(PriceAt(i), <<1, 2>>)
UpperBound(i) == RMul(PriceAt(i), <<3, 2>>)

InBand(i) ==
    RLe(LowerBound(i), call.result[i]) /\ RLe(call.result[i], UpperBound(i))

\* C1: whatever the raw prediction and the jitter were, and on the fallback
\* paths too, every record with price > 0 gets a fair price with
\* 0.5 * price <= fair_price <= 1.5 * price.
C1_FairPriceWithinBand ==
    Returned =>
        \A i \in 1..Len(call.result) :
            RLt(Rat(0), PriceAt(i)) => InBand(i)

\* a model-based call in which the clamp acted at both ends of the band
C1_Witness ==
    /\ call.path = "ok"
    /\ \E i, j \in 1..Len(call.result) :
          /\ RLt(Rat(0), PriceAt(i)) /\ call.result[i] = UpperBound(i)
          /\ RLt(Rat(0), PriceAt(j)) /\ call.result[j] = LowerBound(j)

\* C2: predict_fair_price never raises to its caller and returns exactly one
\* value per input record, in input order: on the fallback paths the i-th
\* value is the i-th price, on the model path it lies in the i-th record's
\* own band.
C2_NeverRaisesOnePerRecord ==
    Returned =>
        /\ ~call.raised
        /\ Len(call.result) = frame.n
        /\ \A i \in 1..Len(call.result) :
              IF call.path = "ok"
              THEN InBand(i)
              ELSE call.result[i] = PriceAt(i)

\* a loaded model whose PCA stage failed on a batch of several records
C2_Witness ==
    /\ model = "loaded"
    /\ call.exc = "ValueError"
    /\ call.ran = {"impute", "pca"}
    /\ ~call.raised
    /\ frame.n > 1
    /\ Len(call.result) = frame.n

\* C3: when the model failed to load, every call returns exactly the input
\* prices, in order, and runs neither imputation, PCA nor jitter.
C3_NoModelEchoesPrices ==
    (model = "none" /\ Returned) =>
        /\ call.path = "no_model"
        /\ call.exc = ""
        /\ call.ran = {}
        /\ call.result = PriceValues(frame)

\* no model, on a batch large and wide enough for the projection
C3_Witness ==
    /\ model = "none"
    /\ call.path = "no_model"
    /\ frame.n >= NComponents
    /\ frame.width >= NComponents
    /\ call.result = PriceValues(frame)

\* C4: with the model loaded, a throw in any stage (imputation, PCA,
\* model.predict, the length check) is not propagated and gives
\* fair_price = price for every record; no partially processed value is
\* returned.
C4_StageFailureEchoesPrices ==
    (model = "loaded" /\ Returned) =>
        /\ (call.exc # "") = (call.path = "except")
        /\ call.path = "except" =>
              /\ ~call.raised
              /\ call.result = PriceValues(frame)

\* the regressor ran and the length check threw, on a batch with a price > 0
C4_Witness ==
    /\ model = "loaded"
    /\ call.path = "except"
    /\ "predict" \in call.ran
    /\ frame.n >= NComponents
    /\ \E i \in 1..frame.n : RLt(Rat(0), PriceAt(i))
    /\ call.result = PriceValues(frame)

----------------------------------------------------------------------------
(* Properties of the scoring service (checked under SpecScore)             *)

Scored == score # None

Present(x) == x # None

\* age_score = max(0, 10 - age/10) with age = current_year - year_built
AgeScore(p) ==
    LET a == Norm(10 * 10 - (CurrentYear - p.year_built[1]), 10)
    IN  IF RLt(a, Rat(0)) THEN Rat(0) ELSE a

\* 10 * clip(zestimate/price, 0.8, 1.2)
ScaledFactor(p) ==
    LET f == Norm(p.zestimate[1], p.price[1])
    IN  IF RLt(f, <<4, 5>>) THEN Rat(8)
        ELSE IF RLt(<<6, 5>>, f) THEN Rat(12)
        ELSE RMul(Rat(10), f)

\* 10 - 100 * |zestimate - price| / price
Volatility(p) ==
    RSub(Rat(10), Norm(100 * Abs(p.zestimate[1] - p.price[1]), p.price[1]))

\* C5: roi_score is exactly 0 when rent_estimate or price is missing or
\* zero, and min(10, rent_estimate * 12 * 0.6 / price * 100) otherwise.
C5_RoiScore ==
    Scored =>
        score.roi_score =
            IF \/ prop.rent_estimate = None \/ prop.rent_estimate = Some(0)
               \/ prop.price = None \/ prop.price = Some(0)
            THEN Rat(0)
            ELSE LET r == Norm(prop.rent_estimate[1] * 720, prop.price[1])
                 IN  IF RLt(Rat(10), r) THEN Rat(10) ELSE r

\* a record whose ROI is above the cap
C5_Witness ==
    /\ Scored
    /\ Truthy(prop.rent_estimate) /\ Truthy(prop.price)
    /\ RLt(Rat(10), Norm(prop.rent_estimate[1] * 720, prop.price[1]))
    /\ score.roi_score = Rat(10)

\* C6 as stated: condition_score is 5.0 when year_built is missing;
\* otherwise mean(age_score, 10 * clip(zestimate/price, 0.8, 1.2)) when
\* zestimate and price are both present, and age_score alone otherwise.
\* (With a price of 0 the quotient of the claim has no value and the claim is
\* not evaluated.)
C6_ConditionScore_AsStated ==
    (Scored /\ prop.price # Some(0)) =>
        score.condition_score =
            IF ~Present(prop.year_built) THEN Rat(5)
            ELSE IF Present(prop.zestimate) /\ Present(prop.price)
            THEN Mean(<<AgeScore(prop), ScaledFactor(prop)>>)
            ELSE AgeScore(prop)

\* C6 amended: condition_score is 5.0 when year_built is missing or 0;
\* otherwise mean(age_score, 10 * clip(zestimate/price, 0.8, 1.2)) when
\* zestimate and price are both present and non-zero, and age_score alone
\* otherwise.
C6_ConditionScore ==
    Scored =>
        score.condition_score =
            IF ~Present(prop.year_built) \/ prop.year_built = Some(0)
            THEN Rat(5)
            ELSE IF /\ Present(prop.zestimate) /\ prop.zestimate # Some(0)
                    /\ Present(prop.price) /\ prop.price # Some(0)
            THEN Mean(<<AgeScore(prop), ScaledFactor(prop)>>)
            ELSE AgeScore(prop)

\* a record scored on the mean branch with the factor clipped at 1.2
C6_Witness ==
    /\ Scored
    /\ Truthy(prop.year_built) /\ Truthy(prop.zestimate) /\ Truthy(prop.price)
    /\ RLt(<<6, 5>>, Norm(prop.zestimate[1], prop.price[1]))
    /\ score.condition_score = Mean(<<AgeScore(prop), Rat(12)>>)

\* C7 as stated: risk_score is the mean of the price-volatility factor (only
\* when zestimate and price are both present), the vacancy factor and the
\* market factor 6; "Land" without a zestimate gives 4.5.
C7_RiskScore_AsStated ==
    (Scored /\ prop.price # Some(0)) =>
        /\ score.risk_score =
              Mean((IF Present(prop.zestimate) /\ Present(prop.price)
                    THEN <<Volatility(prop)>> ELSE <<>>)
                   \o <<Rat(vacancy_risk(prop.property_type)), Rat(6)>>)
        /\ (prop.property_type = "Land" /\ ~Present(prop.zestimate))
              => score.risk_score = <<9, 2>>

\* C7 amended: the price-volatility factor is included only when zestimate
\* and price are both present and non-zero; the vacancy factor and the
\* market factor 6 are always included, and "Land" without a zestimate gives
\* mean(3, 6) = 4.5.
C7_RiskScore ==
    Scored =>
        /\ score.risk_score =
              Mean((IF /\ Present(prop.zestimate) /\ prop.zestimate # Some(0)
                       /\ Present(prop.price) /\ prop.price # Some(0)
                    THEN <<Volatility(prop)>> ELSE <<>>)
                   \o <<Rat(vacancy_risk(prop.property_type)), Rat(6)>>)
        /\ (prop.property_type = "Land" /\ ~Present(prop.zestimate))
              => score.risk_score = <<9, 2>>

\* a "Land" record without a zestimate, scored at 4.5
C7_Witness ==
    /\ Scored
    /\ prop.property_type = "Land"
    /\ prop.zestimate = None
    /\ Present(prop.price)
    /\ score.risk_score = <<9, 2>>

\* the vacancy table read by the normalised names of the data model
NormalizedTypes == {"SINGLE FAMILY", "MULTI-FAMILY", "LAND", "CONDO"}

TableValueOfNormalized(t) ==
    CASE t = standardize_property_type("Single Family") -> 8
      [] t = "MULTI-FAMILY"  -> 7
      [] t = "LAND"          -> 3
      [] OTHER               -> 5

\* C8: a record whose property_type is the normalised form of a listed type
\* ("SINGLE FAMILY" as create_db stores it, "LAND", "MULTI-FAMILY") gets
\* that type's vacancy value (8, 7, 3); 5 is used only for unlisted types.
\* Stated on records without a zestimate, where risk_score is
\* mean(vacancy, 6).
C8_VacancyByNormalizedType ==
    (/\ Scored
     /\ prop.property_type \in NormalizedTypes
     /\ prop.zestimate = None) =>
        score.risk_score =
            Mean(<<Rat(TableValueOfNormalized(prop.property_type)), Rat(6)>>)

\* C9: location_score = 7.0, market_score = 6.0 and total_score =
\* (0.35 roi + 0.25 location + 0.15 condition + 0.15 market + 0.10 risk) * 10
\* over the sub-scores stored in the same InvestmentScore.
C9_TotalScore ==
    Scored =>
        /\ score.location_score = Rat(7)
        /\ score.market_score = Rat(6)
        /\ RMul(score.total_score, Rat(2)) =
              RSum(<<RMul(Rat(7), score.roi_score),
                     RMul(Rat(5), score.location_score),
                     RMul(Rat(3), score.condition_score),
                     RMul(Rat(3), score.market_score),
                     RMul(Rat(2), score.risk_score)>>)

\* a record on which all three computed sub-scores take a computed value
C9_Witness ==
    /\ Scored
    /\ RLt(Rat(0), score.roi_score) /\ RLt(score.roi_score, Rat(10))
    /\ Truthy(prop.year_built)
    /\ Truthy(prop.zestimate) /\ Truthy(prop.price)
    /\ score.condition_score # score.risk_score
    /\ score.property = prop

\* r rounded to two decimals, in hundredths (r >= 0)
Round2(r) == (200 * r[1] + r[2]) \div (2 * r[2])

\* C10: the end-to-end scenario yields roi 3.6, condition 9.0, risk 6.67,
\* location 7.0, market 6.0 and total 59.77 (to two decimals).
C10_EndToEndScenario ==
    (Scored /\ prop = ScenarioProperty) =>
        /\ score.roi_score = <<18, 5>>
        /\ score.condition_score = Rat(9)
        /\ Round2(score.risk_score) = 667
        /\ score.location_score = Rat(7)
        /\ score.market_score = Rat(6)
        /\ Round2(score.total_score) = 5977


\* the record prop with another rent_estimate
WithRent(r) == [prop EXCEPT !.rent_estimate = Some(r)]

RentValues == 0..MaxRent

\* C11: roi_score is monotonic in rent and capped: a record that differs
\* from the scored one only by a larger rent_estimate (price > 0 fixed) has a
\* roi_score that is not smaller, and roi_score never exceeds 10.
C11_RoiMonotonic ==
    Scored =>
        /\ RLe(score.roi_score, Rat(10))
        /\ (Truthy(prop.price) /\ Present(prop.rent_estimate)) =>
              \A r \in RentValues :
                  r >= prop.rent_estimate[1] =>
                      RLe(score.roi_score, calculate_roi_score(WithRent(r)))

\* a scored record with a rent > 0 whose ROI grows strictly with a larger rent
C11_Witness ==
    /\ Scored
    /\ Truthy(prop.price) /\ Truthy(prop.rent_estimate)
    /\ \E r \in RentValues :
          /\ r > prop.rent_estimate[1]
          /\ RLt(score.roi_score, calculate_roi_score(WithRent(r)))


----------------------------------------------------------------------------
(* Claims about score_properties on lists of records                       *)

\* the six scores of an InvestmentScore, without its record
ScoresOnly(s) ==
    <<s.roi_score, s.location_score, s.condition_score, s.market_score,
      s.risk_score, s.total_score>>

ScoresOf(r) == [i \in 1..Len(r.scores) |-> ScoresOnly(r.scores[i])]

\* the list b has been scored since its last change and the call returned
ReturnedFor(b) == results[b] # None /\ results[b][1].exc = ""

\* C12: score_properties is deterministic and idempotent: however often a
\* list is scored while it is unchanged, and however the calls on the other
\* list fall in between, every call gives the same six scores for every
\* record, and the service holds no state between the calls.
C12_ScorePropertiesIdempotent ==
    /\ svc = <<>>
    /\ \A b \in BatchNames :
          (first[b] # None /\ results[b] # None) =>
              /\ results[b][1].exc = first[b][1].exc
              /\ ScoresOf(results[b][1]) = ScoresOf(first[b][1])

\* list "a" scored twice with a call on list "b" in between or around
C12_Witness ==
    /\ calls["a"] >= 2 /\ calls["b"] >= 1
    /\ ReturnedFor("a") /\ ReturnedFor("b")
    /\ Len(results["a"][1].scores) >= 1
    /\ ScoresOf(results["a"][1]) = ScoresOf(first["a"][1])

\* C13: a returning score_properties call gives exactly one InvestmentScore
\* per record, in the order of the list; the i-th one holds the i-th record
\* and is what score_property gives for that record alone, whatever the other
\* records of the list are.
C13_OnePerRecordInOrder ==
    \A b \in BatchNames :
        ReturnedFor(b) =>
            LET out == results[b][1].scores
            IN  /\ Len(out) = Len(batch[b])
                /\ \A i \in 1..Len(out) :
                      /\ out[i].property = batch[b][i]
                      /\ out[i] = score_property(batch[b][i])

\* a scored list of two records that differ, each with its own scores
C13_Witness ==
    /\ ReturnedFor("a")
    /\ Len(batch["a"]) >= 2
    /\ batch["a"][1] # batch["a"][2]
    /\ results["a"][1].scores[1].property = batch["a"][1]
    /\ ScoresOnly(results["a"][1].scores[1])
           # ScoresOnly(results["a"][1].scores[2])


\* C17: a record whose processing fails does not abort the scoring of its
\* list: every other record of the list still gets its normally computed
\* InvestmentScore from the call.
C17_FailureSkipsOneRecord ==
    \A b \in BatchNames :
        results[b] # None =>
            \A j \in 1..Len(batch[b]) :
                ~score_property_raises(batch[b][j]) =>
                    \E k \in 1..Len(results[b][1].scores) :
                        results[b][1].scores[k] = score_property(batch[b][j])

\* list "a" was scored before its last update and again after it, and both
\* calls returned
AfterChange ==
    /\ changed # ""
    /\ before # None /\ before[1].exc = ""
    /\ ReturnedFor("a")

\* C18 as stated: a call made after the price or the fair_price of a record
\* changed gives scores that differ from those of the call before the change.
C18_ChangeAlwaysShows ==
    AfterChange => ScoresOf(results["a"][1]) # ScoresOf(before[1])

\* C18: scores are never cached: every call gives the scores of the records
\* as they are at that call. A call after a change of fair_price gives the
\* same scores as before it, and a call after a change of price gives other
\* scores only if a record has a non-zero rent_estimate or zestimate.
C18_ScoresOfCurrentState ==
    /\ \A b \in BatchNames :
          ReturnedFor(b) =>
              \A i \in 1..Len(batch[b]) :
                  ScoresOnly(results[b][1].scores[i])
                      = ScoresOnly(score_property(batch[b][i]))
    /\ (AfterChange /\ changed = "fair_price") =>
          ScoresOf(results["a"][1]) = ScoresOf(before[1])
    /\ (AfterChange /\ changed = "price"
            /\ ScoresOf(results["a"][1]) # ScoresOf(before[1])) =>
          \E i \in 1..Len(batch["a"]) :
              \/ Truthy(batch["a"][i].rent_estimate)
              \/ Truthy(batch["a"][i].zestimate)

\* a call after a price change whose scores differ from those before it
C18_Witness ==
    /\ AfterChange
    /\ changed = "price"
    /\ ScoresOf(results["a"][1]) # ScoresOf(before[1])
    /\ \A i \in 1..Len(batch["a"]) :
          ScoresOnly(results["a"][1].scores[i])
              = ScoresOnly(score_property(batch["a"][i]))


----------------------------------------------------------------------------
(* Claims about the range of total_score                                   *)

\* the record has no price-volatility factor, or its zestimate is within
\* half the price of the price
NoWideGap(p) ==
    (Truthy(p.zestimate) /\ Truthy(p.price)) =>
        RLe(RMul(Rat(2), RAbs(RSub(Val(p.zestimate), Val(p.price)))),
            Val(p.price))

----------------------------------------------------------------------------
(* Claims about the failure cases of the prediction service                *)

\* the call got as far as the PCA stage and that stage raised
PcaRaised ==
    /\ Returned
    /\ call.path = "except"
    /\ "pca" \in call.ran /\ "predict" \notin call.ran

\* C15: when the encoded input has fewer than 90 features, convert_x_to_pca
\* raises the specific InsufficientFeaturesError (it never returns fewer than
\* 90 components), and predict_fair_price, its caller, decides the fallback.
C15_InsufficientFeaturesError ==
    (PcaRaised /\ frame.width < NComponents) =>
        /\ call.exc = "InsufficientFeaturesError"
        /\ ~call.raised
        /\ call.result = PriceValues(frame)

\* C16: the model-unavailable warning is printed at most once over all the
\* predict_fair_price calls on one PredictionService instance.
C16_WarnedOnce ==
    warnings <= 1


----------------------------------------------------------------------------
(* Claims about the feature lists                                          *)

\* the identifier columns: the table's id and the provider's property_id
Identifiers == {<<"id">>, <<"property_id">>}

\* C14: the numeric and the categorical feature lists handed to the PCA
\* stage are disjoint and hold neither price nor fair_price, nor an
\* identifier column (property_id included), nor a column whose name starts
\* with schools/.
C14_FeatureListsExclude ==
    features # None =>
        LET num == features[1].numeric_features
            cat == features[1].categorical_features
        IN  /\ num \cap cat = {}
            /\ \A col \in num \cup cat :
                  /\ col \notin {<<"price">>, <<"fair_price">>}
                  /\ col \notin Identifiers
                  /\ ~StartsWithSchools(col)


----------------------------------------------------------------------------
(* Claims about the display score                                          *)

Between(x, lo, hi) == RLe(Rat(lo), x) /\ RLe(x, Rat(hi))

\* calculate_investment_score has returned a score for the listing
Displayed == display # None /\ display[1].exc = ""

\* C20: the display score lies in [0, 10] for every property, and each part
\* stays in its band: cap rate in [0, 4], appreciation in [0, 3], age in
\* [0, 2], HOA in [0, 1].
C20_DisplayScoreBands ==
    Displayed =>
        LET d == display[1]
        IN  /\ Between(d.score, 0, 10)
            /\ Between(d.parts.cap_rate, 0, 4)
            /\ Between(d.parts.appreciation, 0, 3)
            /\ Between(d.parts.age, 0, 2)
            /\ Between(d.parts.hoa, 0, 1)


----------------------------------------------------------------------------
(* Claims about the fallback mode and the caller's data                    *)

\* C21: an instance whose model failed to load stays in fallback: once a
\* call has found no model, the instance still has none after any number of
\* calls, and the last call went the no-model way and gave the input prices.
C21_FallbackIsPermanent ==
    warnings >= 1 =>
        /\ model = "none"
        /\ call.path = "no_model"
        /\ ~call.raised
        /\ call.result = PriceValues(frame)

\* a second call on an instance without a model, again answered with prices
C21_Witness ==
    /\ warnings >= 2
    /\ model = "none"
    /\ call.path = "no_model"
    /\ call.result = PriceValues(frame)


\* C22: predict_fair_price leaves the caller's table as it was, on the
\* success path, on the no-model path and on the exception path: imputation
\* and the PCA stage's fillna write into the internal copy only.
C22_CallerTableUnchanged ==
    (dop # None /\ dop.op = "predict_fair_price") =>
        heap[CallerId] = given

\* a successful call on a table with a missing cell: the copy was filled,
\* the caller's table still has the missing cell
C22_Witness ==
    /\ dop # None /\ dop.op = "predict_fair_price" /\ dop.path = "ok"
    /\ HasMissing(given.num)
    /\ heap[CallerId] = given
    /\ heap[CopyId] # None /\ ~HasMissing(heap[CopyId].num)

\* C23: convert_x_to_pca has no side effect on the table passed to it: the
\* cells that were missing in the caller's table are still missing after
\* the call.
C23_PcaLeavesTableUnchanged ==
    (dop # None /\ dop.op = "convert_x_to_pca") =>
        heap[CallerId] = given


----------------------------------------------------------------------------
(* Claims about create_db                                                  *)

\* C24: every fair_price create_db attaches is within 50% of the listed
\* price: 0.5*price <= fair_price <= 1.5*price for every row with price > 0,
\* whatever its zestimate.
C24_FairPriceWithinHalf ==
    (stored # None /\ row.price[1] > 0) =>
        /\ RLe(RMul(Rat(row.price[1]), <<1, 2>>), stored[1].fair_price)
        /\ RLe(stored[1].fair_price, RMul(Rat(row.price[1]), <<3, 2>>))

\* C25: after create_db every address field of a record (street, city,
\* state, zip and county) is non-null.
C25_AddressFieldsNonNull ==
    stored # None =>
        /\ stored[1].streetAddress # None
        /\ stored[1].city # None
        /\ stored[1].state # None
        /\ stored[1].zipcode # None
        /\ stored[1].county # None


----------------------------------------------------------------------------
(* Claims about the property type filter                                   *)

\* the stored type t is matched by the query built
Matches(t) ==
    query[1].types_in = None
        \/ \E i \in 1..Len(query[1].types_in[1]) : query[1].types_in[1][i] = t

\* the type t is selected by the request
IsSelected(t) ==
    \E i \in 1..Len(selected.property_types) :
        upper(selected.property_types[i]) = t

\* C26: whenever a non-empty property_types filter is supplied, the query
\* matches only types that are both selected and allowed; a selection of
\* disallowed types only never gives a query that matches all types.
C26_AllowedTypesEnforced ==
    (query # None /\ selected.property_types # <<>>) =>
        \A t \in allowed_types \cup {"LAND", "MULTI FAMILY"} :
            Matches(t) => (IsSelected(t) /\ t \in allowed_types)


----------------------------------------------------------------------------
(* Claims about totality and the range of risk_score                       *)

\* a proper number: a rational with a positive denominator
IsNumber(r) == Len(r) = 2 /\ r[2] > 0

\* C27: score_property is total on records whose numeric fields are numbers
\* or missing, zeros included: it returns an InvestmentScore of six numbers
\* for the record, and every division it makes is by a price that is present
\* and not zero.
C27_ScorePropertyTotal ==
    Scored =>
        /\ score.property = prop
        /\ \A s \in {score.roi_score, score.location_score,
                     score.condition_score, score.market_score,
                     score.risk_score, score.total_score} : IsNumber(s)
        /\ \A i \in 1..Len(price_divisors(prop)) :
              /\ price_divisors(prop)[i] # None
              /\ price_divisors(prop)[i][1] # 0

\* a scored record with price = 0 and a rent estimate and a zestimate present
C27_Witness ==
    /\ Scored
    /\ prop.price = Some(0)
    /\ Present(prop.rent_estimate) /\ Present(prop.zestimate)
    /\ Present(prop.year_built)
    /\ price_divisors(prop) = <<>>
    /\ IsNumber(score.total_score)

\* C28: risk_score never exceeds 8: the mean of a price-volatility factor of
\* at most 10, a vacancy factor of at most 8 and the market factor 6; it is
\* at most 7 when the price-volatility factor is absent.
C28_RiskAtMostEight ==
    Scored =>
        /\ RLe(score.risk_score, Rat(8))
        /\ ~(Truthy(prop.zestimate) /\ Truthy(prop.price)) =>
              RLe(score.risk_score, Rat(7))

\* a record whose zestimate equals its price, of the type with vacancy 8:
\* the risk score is 8
C28_Witness ==
    /\ Scored
    /\ Truthy(prop.zestimate) /\ Truthy(prop.price)
    /\ score.risk_score = Rat(8)

----------------------------------------------------------------------------
(* Claims about small batches                                              *)

\* C29: with a loaded model a batch of fewer than 90 records never gets a
\* model-based price: the call does not raise and returns the input prices
\* for the whole batch; the model path is taken only with at least 90
\* records and at least 90 encoded features.
C29_SmallBatchFallsBack ==
    (model = "loaded" /\ Returned) =>
        /\ frame.n < NComponents =>
              /\ call.path = "except"
              /\ ~call.raised
              /\ call.result = PriceValues(frame)
        /\ call.path = "ok" =>
              (frame.n >= NComponents /\ frame.width >= NComponents)

\* a batch of one record with a price > 0 and enough features: the PCA stage
\* raised and the price came back
C29_Witness ==
    /\ model = "loaded"
    /\ frame.n = 1 /\ frame.width >= NComponents
    /\ PcaRaised
    /\ RLt(Rat(0), PriceAt(1))
    /\ call.result = PriceValues(frame)


----------------------------------------------------------------------------
(* Claims about the opportunities table                                    *)

\* C30: every row of the opportunities table comes from a retrieved record
\* with a non-zero price and a non-zero fair_price whose fair_price differs
\* from the price by at most 50% of the price, and the rows keep the order
\* of the retrieved records.
C30_RowsWithinBandInOrder ==
    shown # None =>
        LET rows == shown[1]
        IN  /\ \A k \in 1..Len(rows) :
                  LET p == retrieved[rows[k].position]
                  IN  /\ rows[k].position \in 1..Len(retrieved)
                      /\ rows[k].price = p.price
                      /\ rows[k].fair_price = p.fair_price
                      /\ p.price # None /\ p.price[1] # 0
                      /\ p.fair_price # None /\ p.fair_price[1] # 0
                      /\ 2 * Abs(p.fair_price[1] - p.price[1])
                             <= Abs(p.price[1])
            /\ \A j, k \in 1..Len(rows) :
                  j < k => rows[j].position < rows[k].position

\* a table of two rows drawn from three records, the middle one filtered out
C30_Witness ==
    /\ shown # None
    /\ Len(retrieved) = 3
    /\ Len(shown[1]) = 2
    /\ shown[1][1].position = 1 /\ shown[1][2].position = 3
    /\ Truthy(retrieved[2].price) /\ Truthy(retrieved[2].fair_price)

====
